---- MODULE Spec2Model ----
(***************************************************************************)
(* Model of mpd-album-art-viewer (src/src/main.rs): the artwork state      *)
(* machine ImgState, the background fetch / convert threads it spawns, the *)
(* ownership of the MPD client, and the event loop App::run that drives    *)
(* App::update_app_state.                                                  *)
(***************************************************************************)
EXTENDS Integers, Sequences, FiniteSets, TLC

\* ------------------------------------------------------------------ bounds
\* How many spawned threads may be running at once in the model.
MaxThreads == 2
\* The clock counts whole seconds and runs over 0..MaxTime.
MaxTime == 2

VARIABLES
    client,           \* App.client : Option<MpdClient>
    img_state,        \* App.state.img_state : ImgState
    current_song,     \* App.state.current_song : Option<Song>
    viewport_area,    \* App.state.viewport_area : Rect
    last_update_time, \* App.last_update_time : Option<Instant>
    exit,             \* App.exit
    detached,         \* the running threads whose JoinHandle was dropped
    term_size,        \* the terminal's size, as frame.size() reports it
    now,              \* Instant::now()
    pc,               \* position of App::run
    tick,             \* what the last run of update_app_state did
    hist,             \* what earlier runs of update_app_state did
    terminal,         \* the terminal's modes and what main returned
    lay               \* a layout computation: its inputs and its results

vars == <<client, img_state, current_song, viewport_area, last_update_time,
          exit, detached, term_size, now, pc, tick, hist, terminal, lay>>

\* The variables of App and of its threads.
appvars == <<client, img_state, current_song, viewport_area, last_update_time,
             exit, detached, term_size, now, tick, hist>>

\* ------------------------------------------------------------- Option<T>
None == <<>>
Some(x) == <<x>>
is_some(o) == o # <<>>
is_none(o) == o = <<>>
unwrap(o) == o[1]

\* ------------------------------------------------------------ data model
MPD == "mpd"

\* Song.file, as its path components; a song is identified by its file.
Files == {<<"X", "a">>, <<"X", "b">>, <<"Y", "a">>, <<"c">>}
Songs == [file : Files]
OptSongs == {None} \cup {Some(s) : s \in Songs}

Rects == {[width |-> 80, height |-> 24], [width |-> 40, height |-> 12]}
DefaultRect == [width |-> 0, height |-> 0]

\* Duration::from_secs(1)
UPDATE_PERIOD == 1

\* ----------------------------------------------------------------- threads
\* A JoinHandle stands for its thread: whether it is still running, what it
\* was given (the client and the song, or the bytes and the viewport) and,
\* once it has finished, what it returned.
NoThread ==
    [st |-> "none", kind |-> "none", client |-> None, song |-> None,
     bytes |-> None, area |-> None, result |-> None]

\* ImgState
Idle(st) == [tag |-> "Idle", ready |-> st, jh |-> NoThread]
Fetching(jh) == [tag |-> "Fetching", ready |-> None, jh |-> jh]
Converting(jh) == [tag |-> "Converting", ready |-> None, jh |-> jh]
DefaultImgState == Idle(None)

is_fetching(st) == st.tag = "Fetching"
is_converting(st) == st.tag = "Converting"

\* JoinHandle::is_finished
is_finished(jh) == jh.st = "finished"

\* The number of spawned threads that have not ended: the one behind the
\* JoinHandle in img_state and the detached ones.
NumRunning(st, det) ==
    (IF st.jh.st = "running" THEN 1 ELSE 0) + det.fetch + det.convert

\* Dropping an ImgState value drops the JoinHandle it holds: a thread still
\* running is detached and runs on, and what it returns is dropped.
drop_img_state(det, st) ==
    IF st.jh.st = "running"
    THEN [det EXCEPT ![st.jh.kind] = @ + 1]
    ELSE det

\* ------------------------------------------------------------ the tick log
NoTick ==
    [result |-> "none", calls |-> {}, polled |-> FALSE,
     old_song |-> None, fetched |-> None,
     fetch_from |-> "none", conv_from |-> "none", conv_area |-> None,
     conv_term |-> None, conv_fin |-> "none", poll_err |-> "none",
     after_fail |-> FALSE]

Called(s, op) == [s EXCEPT !.tick.calls = @ \cup {op}]

\* --------------------------------------------------------------- ImgState
set_idle(s, st) ==
    [Called(s, "set_idle") EXCEPT
        !.detached = drop_img_state(s.detached, s.img_state),
        !.img_state = Idle(st)]

start_fetching(s, cl, song) ==
    LET jh == [NoThread EXCEPT !.st = "running", !.kind = "fetch",
                               !.client = Some(cl), !.song = song]
    IN  IF NumRunning(s.img_state, s.detached) >= MaxThreads
        THEN [s EXCEPT !.overflow = TRUE]
        ELSE [Called(s, "start_fetching") EXCEPT
                !.detached = drop_img_state(s.detached, s.img_state),
                !.img_state = Fetching(jh),
                !.tick.fetch_from = s.img_state.tag]

\* Variant: the finished fetch thread is never recognised.
try_finish_fetching_never(s) ==
    [s |-> Called(s, "try_finish_fetching"), ret |-> None]

try_finish_fetching(s) ==
    IF ~(is_fetching(s.img_state) /\ is_finished(s.img_state.jh))
    THEN [s |-> Called(s, "try_finish_fetching"), ret |-> None]
    ELSE LET jh == s.img_state.jh
         IN  [s |-> [Called(Called(s, "try_finish_fetching"), "join") EXCEPT
                        !.img_state = DefaultImgState],
              ret |-> Some([client |-> unwrap(jh.client), bytes |-> jh.result])]

start_converting(s, bytes, conv_ctx) ==
    LET jh == [NoThread EXCEPT !.st = "running", !.kind = "convert",
                               !.bytes = Some(bytes),
                               !.area = Some(conv_ctx.area)]
    IN  IF NumRunning(s.img_state, s.detached) >= MaxThreads
        THEN [s EXCEPT !.overflow = TRUE]
        ELSE [Called(s, "start_converting") EXCEPT
                !.detached = drop_img_state(s.detached, s.img_state),
                !.img_state = Converting(jh),
                !.tick.conv_from = s.img_state.tag,
                !.tick.conv_area = Some(conv_ctx.area),
                !.tick.conv_term = Some(s.term_size)]

\* Variant: a conversion that returned nothing is joined but stays in
\* img_state.
try_finish_converting_keep(s) ==
    IF ~(is_converting(s.img_state) /\ is_finished(s.img_state.jh))
    THEN [s |-> [Called(s, "try_finish_converting") EXCEPT
                    !.tick.conv_fin = "pending"],
          ret |-> None]
    ELSE LET jh == s.img_state.jh
         IN  [s |-> [Called(s, "try_finish_converting") EXCEPT
                        !.img_state =
                            IF is_some(jh.result) THEN DefaultImgState ELSE @,
                        !.tick.conv_fin =
                            IF is_some(jh.result) THEN "some" ELSE "failed"],
              ret |-> jh.result]

\* Variant: the conversion thread is joined without asking is_finished.
try_finish_converting_block(s) ==
    IF ~is_converting(s.img_state)
    THEN [s |-> [Called(s, "try_finish_converting") EXCEPT
                    !.tick.conv_fin = "pending"],
          ret |-> None]
    ELSE LET jh == s.img_state.jh
         IN  [s |-> [Called(Called(s, "try_finish_converting"), "join") EXCEPT
                        !.img_state = DefaultImgState,
                        !.tick.conv_fin =
                            IF is_some(jh.result) THEN "some" ELSE "failed"],
              ret |-> jh.result]

try_finish_converting(s) ==
    IF ~(is_converting(s.img_state) /\ is_finished(s.img_state.jh))
    THEN [s |-> [Called(s, "try_finish_converting") EXCEPT
                    !.tick.conv_fin = "pending"],
          ret |-> None]
    ELSE LET jh == s.img_state.jh
         IN  [s |-> [Called(Called(s, "try_finish_converting"), "join") EXCEPT
                        !.img_state = DefaultImgState,
                        !.tick.conv_fin =
                            IF is_some(jh.result) THEN "some" ELSE "failed"],
              ret |-> jh.result]

\* -------------------------------------------------------------------- App
parent(path) ==
    IF Len(path) = 0 THEN None ELSE Some(SubSeq(path, 1, Len(path) - 1))

\* Variant: the files are compared, not their parents.
songs_in_same_dir_files(song0, song1) == song0.file = song1.file

songs_in_same_dir(song0, song1) == parent(song0.file) = parent(song1.file)

\* Variant: only two present songs can be unchanged.
album_art_changed_present(old_song, new_song) ==
    IF is_some(old_song) /\ is_some(new_song) /\ old_song = new_song THEN FALSE
    ELSE IF is_some(old_song) /\ is_some(new_song)
         THEN ~songs_in_same_dir(unwrap(old_song), unwrap(new_song))
    ELSE TRUE

\* update_app_state, lines 398-404.
album_art_changed(old_song, new_song) ==
    IF is_none(old_song) /\ is_none(new_song) THEN FALSE
    ELSE IF is_some(old_song) /\ is_some(new_song) /\ old_song = new_song THEN FALSE
    ELSE IF is_some(old_song) /\ is_some(new_song)
         THEN ~songs_in_same_dir(unwrap(old_song), unwrap(new_song))
    ELSE TRUE

conversion_context(s) == [area |-> s.viewport_area]

\* update_app_state, lines 377-391: take the client back from a finished fetch.
finish_fetch_step(s) ==
    IF is_none(s.client)
    THEN IF ~is_fetching(s.img_state)
         THEN [s |-> [s EXCEPT !.tick.result = "Panic"], early |-> TRUE,
               new_img_bytes |-> None]
         ELSE LET r == try_finish_fetching(s)
              IN  IF is_none(r.ret)
                  THEN [s |-> [r.s EXCEPT !.tick.result = "Ok"], early |-> TRUE,
                        new_img_bytes |-> None]
                  ELSE [s |-> [set_idle(r.s, None) EXCEPT
                                  !.client = Some(unwrap(r.ret).client),
                                  !.tick.fetched = Some(unwrap(r.ret).bytes)],
                        early |-> FALSE,
                        new_img_bytes |-> unwrap(r.ret).bytes]
    ELSE [s |-> s, early |-> FALSE, new_img_bytes |-> None]

\* Variant: the fetch thread is given the client and App.client keeps it.
fetch_for_change_keep(s) ==
    start_fetching(s, unwrap(s.client), s.current_song)

\* update_app_state, lines 409-411: the fetch thread is given the client
\* taken out of App.client.
fetch_for_change(s) ==
    start_fetching([s EXCEPT !.client = None], unwrap(s.client), s.current_song)

\* Variant: freshly fetched bytes are converted before a change of album is
\* looked at.
dispatch_bytes_first(s, changed, new_img_bytes) ==
    LET done ==
          IF is_some(new_img_bytes)
          THEN start_converting(s, unwrap(new_img_bytes), conversion_context(s))
          ELSE IF changed
          THEN fetch_for_change(s)
          ELSE IF is_converting(s.img_state)
          THEN LET r == try_finish_converting(s)
               IN  IF is_some(r.ret) THEN set_idle(r.s, r.ret) ELSE r.s
          ELSE s
    IN  [done EXCEPT !.tick.result = "Ok"]

\* Variant: fetched bytes are converted whether or not a fetch was started
\* for a change of album just before.
dispatch_no_else(s, changed, new_img_bytes) ==
    LET fetched == IF changed THEN fetch_for_change(s) ELSE s
        done ==
          IF is_some(new_img_bytes)
          THEN start_converting(fetched, unwrap(new_img_bytes),
                                conversion_context(fetched))
          ELSE IF ~changed /\ is_converting(s.img_state)
          THEN LET r == try_finish_converting(s)
               IN  IF is_some(r.ret) THEN set_idle(r.s, r.ret) ELSE r.s
          ELSE fetched
    IN  [done EXCEPT !.tick.result = "Ok"]

\* update_app_state, lines 405-427: start a fetch, start a conversion or
\* collect a finished conversion.
dispatch(s, changed, new_img_bytes) ==
    LET done ==
          IF changed
          THEN fetch_for_change(s)
          ELSE IF is_some(new_img_bytes)
          THEN start_converting(s, unwrap(new_img_bytes), conversion_context(s))
          ELSE IF is_converting(s.img_state)
          THEN LET r == try_finish_converting(s)
               IN  IF is_some(r.ret) THEN set_idle(r.s, r.ret) ELSE r.s
          ELSE s
    IN  [done EXCEPT !.tick.result = "Ok"]

\* Variant: a failing currentsong() counts as no current song.
poll_and_dispatch_lenient(s, new_img_bytes, status_ok, song_res) ==
    IF is_none(s.client) THEN [s EXCEPT !.tick.result = "Panic"]
    ELSE IF ~status_ok
    THEN [s EXCEPT !.tick.result = "Err", !.tick.poll_err = "status"]
    ELSE LET old_song == s.current_song
             new_song == IF is_none(song_res) THEN None ELSE unwrap(song_res)
             polled == [s EXCEPT !.current_song = new_song,
                                 !.tick.polled = TRUE,
                                 !.tick.old_song = old_song,
                                 !.tick.poll_err =
                                    IF is_none(song_res) THEN "currentsong"
                                    ELSE "none"]
         IN  dispatch(polled, album_art_changed(old_song, new_song),
                      new_img_bytes)

\* update_app_state, lines 393-404 and the call of the rest: status_ok is
\* whether client.status() succeeds, song_res is None when
\* client.currentsong() fails and Some(the current song) otherwise.
poll_and_dispatch(s, new_img_bytes, status_ok, song_res) ==
    IF is_none(s.client) THEN [s EXCEPT !.tick.result = "Panic"]
    ELSE IF ~status_ok
    THEN [s EXCEPT !.tick.result = "Err", !.tick.poll_err = "status"]
    ELSE IF is_none(song_res)
    THEN [s EXCEPT !.current_song = None, !.tick.result = "Err",
                   !.tick.poll_err = "currentsong"]
    ELSE LET old_song == s.current_song
             new_song == unwrap(song_res)
             polled == [s EXCEPT !.current_song = new_song,
                                 !.tick.polled = TRUE,
                                 !.tick.old_song = old_song]
         IN  dispatch(polled, album_art_changed(old_song, new_song),
                      new_img_bytes)

update_app_state(s, status_ok, song_res) ==
    LET f == finish_fetch_step(s)
    IN  IF f.early THEN f.s
        ELSE poll_and_dispatch(f.s, f.new_img_bytes, status_ok, song_res)

\* Variant: every key ends the loop.
handle_key_event_any(ex, code) == TRUE

\* handle_key_event, lines 363-367, and exit, lines 478-480: the value of
\* App.exit after the key press.
handle_key_event(ex, code) == ex \/ code = "q"

\* Variant: nothing is shown while there is no artwork.
colored_text_blank(st) ==
    IF st.tag = "Idle" /\ is_some(st.ready)
    THEN [art |-> st.ready, message |-> ""]
    ELSE IF st.tag = "Idle" THEN [art |-> None, message |-> ""]
    ELSE IF st.tag = "Fetching"
    THEN [art |-> None, message |-> "Fetching image"]
    ELSE [art |-> None, message |-> "Converting image"]

\* render, lines 552-557: what the panel shows for an artwork state, either
\* the converted artwork or one of the three placeholder messages.
colored_text(st) ==
    IF st.tag = "Idle" /\ is_some(st.ready)
    THEN [art |-> st.ready, message |-> ""]
    ELSE IF st.tag = "Idle" THEN [art |-> None, message |-> "No image"]
    ELSE IF st.tag = "Fetching"
    THEN [art |-> None, message |-> "Fetching image"]
    ELSE [art |-> None, message |-> "Converting image"]

elapsed_since_update ==
    IF is_none(last_update_time) THEN UPDATE_PERIOD
    ELSE now - unwrap(last_update_time)

\* ------------------------------------------------------- state <-> record
AppState ==
    [client |-> client, img_state |-> img_state, current_song |-> current_song,
     viewport_area |-> viewport_area, detached |-> detached,
     term_size |-> term_size, overflow |-> FALSE,
     tick |-> [NoTick EXCEPT !.after_fail = hist.fail_idle]]

SongResults == {None} \cup {Some(o) : o \in OptSongs}

\* The run of update_app_state from state app, called from handle_events or
\* not, and what follows it in run.
Update(app, from_events) ==
    \E s0 \in {app}, status_ok \in BOOLEAN, song_res \in SongResults :
        \E r \in {update_app_state(s0, status_ok, song_res)} :
            /\ ~r.overflow
            /\ client' = r.client
            /\ img_state' = r.img_state
            /\ current_song' = r.current_song
            /\ detached' = r.detached
            /\ tick' = r.tick
            /\ hist' = [last_run_at |->
                            IF from_events THEN Some(now)
                            ELSE hist.last_run_at,
                        fail_idle |->
                            IF r.tick.conv_fin = "failed" THEN TRUE
                            ELSE IF r.img_state # s0.img_state THEN FALSE
                            ELSE hist.fail_idle,
                        q_read |-> hist.q_read]
            /\ pc' = CASE r.tick.result = "Ok" -> "loop"
                       [] r.tick.result = "Err" -> "err"
                       [] OTHER -> "panic"

\* ---------------------------------------------------------------- actions
\* App::create, lines 296-324: the App that main hands to run.
AppInit ==
    /\ client = Some(MPD)
    /\ img_state = DefaultImgState
    /\ current_song = None
    /\ viewport_area = DefaultRect
    /\ last_update_time = None
    /\ exit = FALSE
    /\ detached = [fetch |-> 0, convert |-> 0]
    /\ term_size = [width |-> 80, height |-> 24]
    /\ now = 0
    /\ tick = NoTick
    /\ hist = [last_run_at |-> None, fail_idle |-> FALSE, q_read |-> FALSE]

\* No layout computation is followed.
NoLay == [stage |-> "none"]

\* main, line 94: run is called with raw mode on and the alternate screen
\* entered.
Init ==
    /\ AppInit
    /\ pc = "start"
    /\ terminal = [enabled |-> TRUE, raw |-> TRUE, alt |-> TRUE,
                   result |-> "none"]
    /\ lay = NoLay

\* run, lines 327-330: capture the viewport, first update, first draw.
RunStart ==
    /\ pc = "start"
    /\ viewport_area' = term_size
    /\ Update([AppState EXCEPT !.viewport_area = term_size], FALSE)
    /\ UNCHANGED <<last_update_time, exit, term_size, now>>
    /\ UNCHANGED <<terminal, lay>>

\* handle_events, lines 355-358, and the draw that follows in run.
HandleEventsUpdate ==
    /\ pc = "loop"
    /\ ~exit
    /\ elapsed_since_update >= UPDATE_PERIOD
    /\ Update(AppState, TRUE)
    /\ UNCHANGED <<viewport_area, last_update_time, exit, term_size, now>>
    /\ UNCHANGED <<terminal, lay>>

\* handle_events, lines 344-351, and handle_key_event: a key press is read.
KeyPress ==
    /\ pc = "loop"
    /\ ~exit
    /\ \E code \in {"q", "x"} :
          /\ exit' = handle_key_event(exit, code)
          /\ hist' = [hist EXCEPT !.q_read = @ \/ code = "q"]
    /\ UNCHANGED <<client, img_state, current_song, viewport_area,
                   last_update_time, detached, term_size, now, pc, tick>>
    /\ UNCHANGED <<terminal, lay>>

\* run, lines 331 and 335: the loop ends once exit is set.
RunReturn ==
    /\ pc = "loop"
    /\ exit
    /\ pc' = "ok"
    /\ UNCHANGED <<client, img_state, current_song, viewport_area,
                   last_update_time, exit, detached, term_size, now, tick, hist>>
    /\ UNCHANGED <<terminal, lay>>

\* event::poll, event::read or terminal.draw fails: run returns the error.
\* The draw that follows the key press q (line 333) can fail as well.
TerminalError ==
    /\ pc = "loop"
    /\ pc' = "err"
    /\ UNCHANGED <<client, img_state, current_song, viewport_area,
                   last_update_time, exit, detached, term_size, now, tick, hist>>
    /\ UNCHANGED <<terminal, lay>>

\* The terminal is resized; the next frame has the new size.
Resize ==
    /\ pc = "loop"
    /\ \E r \in Rects \ {term_size} : term_size' = r
    /\ UNCHANGED <<client, img_state, current_song, viewport_area,
                   last_update_time, exit, detached, now, pc, tick, hist>>
    /\ UNCHANGED <<terminal, lay>>

TimePasses ==
    /\ pc = "loop"
    /\ now < MaxTime
    /\ now' = now + 1
    /\ UNCHANGED <<client, img_state, current_song, viewport_area,
                   last_update_time, exit, detached, term_size, pc, tick, hist>>
    /\ UNCHANGED <<terminal, lay>>

\* What a running thread returns.  A fetch (lines 133-145) returns the art of
\* the song's directory, or nothing when there is no song or albumart fails;
\* a conversion (lines 170-228) returns the artwork or nothing.
ThreadResults(th) ==
    IF th.kind = "fetch"
    THEN IF is_none(th.song) THEN {None}
         ELSE {None, Some([dir |-> unwrap(parent(unwrap(th.song).file))])}
    ELSE {None, Some([dir |-> unwrap(th.bytes).dir, area |-> unwrap(th.area)])}

\* The thread behind the JoinHandle in img_state runs to its end.
ThreadFinish ==
    /\ pc = "loop"
    /\ img_state.jh.st = "running"
    /\ \E res \in ThreadResults(img_state.jh) :
          img_state' = [img_state EXCEPT !.jh.st = "finished", !.jh.result = res]
    /\ UNCHANGED <<client, current_song, viewport_area, last_update_time,
                   exit, detached, term_size, now, pc, tick, hist>>
    /\ UNCHANGED <<terminal, lay>>

\* A detached thread runs to its end; what it returns is dropped.
DetachedFinish ==
    /\ pc = "loop"
    /\ \E kind \in {"fetch", "convert"} :
          /\ detached[kind] > 0
          /\ detached' = [detached EXCEPT ![kind] = @ - 1]
    /\ UNCHANGED <<client, img_state, current_song, viewport_area,
                   last_update_time, exit, term_size, now, pc, tick, hist>>
    /\ UNCHANGED <<terminal, lay>>

Next ==
    \/ RunStart
    \/ HandleEventsUpdate
    \/ KeyPress
    \/ RunReturn
    \/ TerminalError
    \/ Resize
    \/ TimePasses
    \/ ThreadFinish
    \/ DetachedFinish

Spec == Init /\ [][Next]_vars

\* The event loop keeps running handle_events and the operating system keeps
\* running the spawned threads.
LiveSpec ==
    Spec /\ WF_vars(RunStart) /\ WF_vars(HandleEventsUpdate) /\ WF_vars(ThreadFinish)

\* ----------------------------------------------------------------- layout
VERT_VIEWPORT_GAP == 3
VERT_BORDER_WIDTH == 1
VERT_PADDING == 1
HORIZ_VIEWPORT_GAP == 6
HORIZ_BORDER_WIDTH == 1
HORIZ_PADDING == 2

\* An f64 is kept as the exact fraction n/d of two naturals: d = 0 stands for
\* +infinity when n > 0 and for NaN when n = 0.
Frac(n, d) == [n |-> n, d |-> d]
IsNaN(a) == a.n = 0 /\ a.d = 0
FMul(a, b) == Frac(a.n * b.n, a.d * b.d)
FDiv(a, b) == Frac(a.n * b.d, a.d * b.n)
FGt(a, b) == ~IsNaN(a) /\ ~IsNaN(b) /\ a.n * b.d > b.n * a.d
FLt(a, b) == ~IsNaN(a) /\ ~IsNaN(b) /\ a.n * b.d < b.n * a.d
\* The cast of an f64 to an unsigned integer of greatest value max: the
\* fraction is cut off, the value saturates, NaN gives 0.
FTrunc(a, max) ==
    IF IsNaN(a) THEN 0
    ELSE IF a.d = 0 THEN max
    ELSE IF a.n \div a.d > max THEN max ELSE a.n \div a.d

\* A usize is kept as the integer congruent to it modulo 2^64 that is least
\* in absolute value: a negative number stands for the wrapped result of a
\* subtraction.  The cast of a usize to u16 keeps the low 16 bits.
U16 == 2^16
AsU16(n) == n % U16
\* The greatest integer of the model, where a cast to usize saturates.
USIZE_TOP == 2147483647
\* usize as f64: a wrapped value is rounded to 2^64, above every other
\* quantity of the layout, and is kept as +infinity.
AsF64(n) == IF n < 0 THEN Frac(1, 0) ELSE Frac(n, 1)

\* viewable_width as f64 * font_aspect / viewable_height as f64, lines 182-183
\* and 494.  With both operands wrapped the quotient of the two roundings of
\* 2^64 is 1 and the result is font_aspect; with only the height wrapped the
\* result is below every aspect of the layout and is kept as 0.
viewport_aspect_of(viewable_width, viewable_height, font_aspect) ==
    IF viewable_width < 0 /\ viewable_height < 0 THEN font_aspect
    ELSE IF viewable_height < 0 THEN Frac(0, 1)
    ELSE FDiv(FMul(AsF64(viewable_width), font_aspect),
              AsF64(viewable_height))

\* An unsigned subtraction that underflows panics in a build with overflow
\* checks and wraps in a build without them: a computation in which one
\* underflowed has both outcomes.
Builds(r) == IF r.underflow THEN {[r EXCEPT !.panic = TRUE], r} ELSE {r}

\* Variant: the horizontal margin is counted once.
scaled_width_one_margin(area, font_aspect, image) ==
    LET viewable_width ==
            area.width - (HORIZ_VIEWPORT_GAP + HORIZ_BORDER_WIDTH + HORIZ_PADDING)
        viewable_height ==
            area.height - (VERT_VIEWPORT_GAP + VERT_BORDER_WIDTH + VERT_PADDING) * 2
        viewport_aspect ==
            viewport_aspect_of(viewable_width, viewable_height, font_aspect)
        image_aspect == Frac(image.width, image.height)
        wide == FGt(image_aspect, viewport_aspect)
    IN  Builds([panic |-> FALSE,
                underflow |-> viewable_width < 0 \/ viewable_height < 0,
                viewable_width |-> viewable_width,
                viewable_height |-> viewable_height,
                wide |-> wide,
                huge |-> IF wide THEN viewable_width < 0
                         ELSE viewable_height < 0,
                width |-> IF wide THEN viewable_width
                          ELSE IF viewable_height < 0 THEN 0
                          ELSE FTrunc(FDiv(FMul(AsF64(viewable_height),
                                                image_aspect),
                                           font_aspect), USIZE_TOP)])

\* The conversion thread, lines 178-213: the width in columns that the image
\* is scaled to.  huge tells that width is a wrapped value or a multiple of
\* one, beyond every size of a terminal.
scaled_width(area, font_aspect, image) ==
    LET viewable_width ==
            area.width - (HORIZ_VIEWPORT_GAP + HORIZ_BORDER_WIDTH + HORIZ_PADDING) * 2
        viewable_height ==
            area.height - (VERT_VIEWPORT_GAP + VERT_BORDER_WIDTH + VERT_PADDING) * 2
        viewport_aspect ==
            viewport_aspect_of(viewable_width, viewable_height, font_aspect)
        image_aspect == Frac(image.width, image.height)
        wide == FGt(image_aspect, viewport_aspect)
    IN  Builds([panic |-> FALSE,
                underflow |-> viewable_width < 0 \/ viewable_height < 0,
                viewable_width |-> viewable_width,
                viewable_height |-> viewable_height,
                wide |-> wide,
                huge |-> IF wide THEN viewable_width < 0
                         ELSE viewable_height < 0,
                width |-> IF wide THEN viewable_width
                          ELSE IF viewable_height < 0 THEN 0
                          ELSE FTrunc(FDiv(FMul(AsF64(viewable_height),
                                                image_aspect),
                                           font_aspect), USIZE_TOP)])

\* The Text of a converted image: img_to_char_rows is given Some(width) and
\* makes rows of width columns, and as many rows as lines 201-204 say,
\* ascii_img_height == ascii_img_width * font_aspect / img_aspect.
art_text(width, font_aspect, image) ==
    [width |-> width,
     height |-> FTrunc(FDiv(FMul(Frac(width, 1), font_aspect),
                            Frac(image.width, image.height)), USIZE_TOP)]

\* The Text of a placeholder message, lines 549-551: one line; "No image" is
\* the shortest of the three.
message_text == [width |-> 8, height |-> 1]

\* create_paragraph, lines 483-511: the panel's size, its vertical padding
\* and its origin, for a viewport and the Text to show.
create_paragraph(viewport, font_aspect, text) ==
    LET viewable_width == viewport.width - HORIZ_VIEWPORT_GAP * 2
        viewable_height == viewport.height - VERT_VIEWPORT_GAP * 2
        viewport_aspect ==
            viewport_aspect_of(viewable_width, viewable_height, font_aspect)
        image == text.height > 1
        tall == FLt(viewport_aspect, Frac(1, 1))
        width ==
            IF image
            THEN AsU16(text.width + (HORIZ_BORDER_WIDTH + HORIZ_PADDING) * 2)
            ELSE IF tall THEN AsU16(viewable_width)
            ELSE FTrunc(FDiv(Frac(AsU16(viewable_height), 1), font_aspect),
                        U16 - 1)
        height ==
            IF image
            THEN AsU16(text.height + (VERT_BORDER_WIDTH + VERT_PADDING) * 2)
            ELSE IF tall
            THEN FTrunc(FMul(Frac(width, 1), font_aspect), U16 - 1)
            ELSE AsU16(viewable_height)
        \* vert_padding, a usize: negative when its subtraction wrapped
        vert_padding ==
            IF image THEN VERT_PADDING
            ELSE IF tall THEN height - 2 * VERT_BORDER_WIDTH - 1
            ELSE viewable_height \div 2 - VERT_BORDER_WIDTH - 2
        margins_underflow ==
            ~image /\ (viewable_width < 0 \/ viewable_height < 0)
        padding_underflow ==
            /\ ~image
            /\ vert_padding < 0
            /\ (tall \/ viewable_height >= 0)
        origin_underflow ==
            width > viewport.width \/ height > viewport.height
    IN  Builds([panic |-> FALSE,
                underflow |-> margins_underflow \/ padding_underflow
                                \/ origin_underflow,
                margins_underflow |-> margins_underflow,
                padding_underflow |-> padding_underflow,
                origin_underflow |-> origin_underflow,
                image |-> image,
                viewable_width |-> viewable_width,
                viewable_height |-> viewable_height,
                width |-> width,
                height |-> height,
                vert_padding |->
                    AsU16(IF tall /\ ~image THEN vert_padding \div 2
                          ELSE vert_padding),
                x |-> AsU16(viewport.width - width) \div 2,
                y |-> AsU16(viewport.height - height) \div 2])

\* The sizes of a terminal, the cell sizes of a font (8 by 15 is the default
\* of the command line, lines 54-57) and the sizes of a decoded image that
\* the layout is computed for.
LayoutRects ==
    {[width |-> w, height |-> h] : w \in {10, 18, 20, 40, 80},
                                   h \in {5, 10, 12, 24}}
LayoutFonts == {[width |-> 8, height |-> 15], [width |-> 10, height |-> 10]}
LayoutImages ==
    {[width |-> 600, height |-> 600], [width |-> 800, height |-> 400],
     [width |-> 400, height |-> 800]}

\* App::create, line 311.
font_aspect_of(font) == Frac(font.width, font.height)

\* A layout computation starts from the viewport captured by run (area), the
\* font, a decoded image, the frame's size when render runs (viewport) and
\* whether render then finds artwork or shows a message.
LayoutInit ==
    /\ AppInit
    /\ pc = "layout"
    /\ terminal = [enabled |-> TRUE, raw |-> TRUE, alt |-> TRUE,
                   result |-> "none"]
    /\ lay \in [stage : {"input"}, area : LayoutRects, font : LayoutFonts,
                 image : LayoutImages, viewport : LayoutRects,
                 shown : {"art", "message"}, conv : {None}, text : {None},
                 panel : {None}]

\* The conversion thread computes the width to scale the image to.
LayoutConvert ==
    /\ pc = "layout"
    /\ lay.stage = "input"
    /\ \E c \in scaled_width(lay.area, font_aspect_of(lay.font), lay.image) :
          lay' = [lay EXCEPT !.stage = "converted", !.conv = Some(c)]
    /\ UNCHANGED <<appvars, pc, terminal>>

\* render, lines 552-559: the panel for the artwork, or for a message when
\* there is no artwork to show: another state than Idle(Some), or a
\* conversion thread that panicked or was asked for a width beyond memory.
LayoutRender ==
    /\ pc = "layout"
    /\ lay.stage = "converted"
    /\ LET c == unwrap(lay.conv)
           text == IF lay.shown = "art" /\ ~c.panic /\ ~c.huge
                   THEN art_text(c.width, font_aspect_of(lay.font), lay.image)
                   ELSE message_text
       IN  \E p \in create_paragraph(lay.viewport, font_aspect_of(lay.font),
                                      text) :
              lay' = [lay EXCEPT !.stage = "rendered", !.text = Some(text),
                                 !.panel = Some(p)]
    /\ UNCHANGED <<appvars, pc, terminal>>

LayoutNext ==
    \/ LayoutConvert
    \/ LayoutRender

LayoutSpec == LayoutInit /\ [][LayoutNext]_vars

\* ------------------------------------------------------------------- main
\* main, lines 90-92: enable_raw_mode()?, execute(EnterAlternateScreen)? and
\* Terminal::new(..)?; failed is the step that fails, if one does, and main
\* returns its error on the spot.
MainSetUp ==
    /\ pc = "main"
    /\ \E failed \in {"none", "enable_raw_mode", "EnterAlternateScreen",
                      "Terminal::new"} :
          /\ terminal' =
                [enabled |-> failed # "enable_raw_mode",
                 raw |-> failed # "enable_raw_mode",
                 alt |-> failed \in {"none", "Terminal::new"},
                 result |-> IF failed = "none" THEN "none" ELSE "Err(terminal)"]
          /\ pc' = IF failed = "none" THEN "start" ELSE "returned"
    /\ UNCHANGED <<appvars, lay>>

\* main, lines 94-98: run has returned result; disable_raw_mode()?,
\* execute(LeaveAlternateScreen)?, then result is returned.
MainTearDown ==
    /\ pc \in {"ok", "err"}
    /\ \E failed \in {"none", "disable_raw_mode", "LeaveAlternateScreen"} :
          terminal' =
                [enabled |-> terminal.enabled,
                 raw |-> failed = "disable_raw_mode",
                 alt |-> failed # "none",
                 result |-> IF failed # "none" THEN "Err(terminal)"
                            ELSE IF pc = "ok" THEN "Ok" ELSE "Err(run)"]
    /\ pc' = "returned"
    /\ UNCHANGED <<appvars, lay>>

\* main before line 90: App::create has returned the App.
MainInit ==
    /\ AppInit
    /\ pc = "main"
    /\ terminal = [enabled |-> FALSE, raw |-> FALSE, alt |-> FALSE,
                   result |-> "none"]
    /\ lay = NoLay

MainNext ==
    \/ MainSetUp
    \/ Next
    \/ MainTearDown

MainSpec == MainInit /\ [][MainNext]_vars

\* ------------------------------------------------------------------ claims
\* The number of threads holding the client, and the directory of a file.
Holders == (IF is_some(img_state.jh.client) THEN 1 ELSE 0) + detached.fetch
Dir(file) == SubSeq(file, 1, Len(file) - 1)

\* The recorded track and the polled one lie in different directories, or
\* exactly one of them is absent.
DirChanged(old, new) ==
    \/ is_some(old) /\ is_none(new)
    \/ is_none(old) /\ is_some(new)
    \/ is_some(old) /\ is_some(new) /\ Dir(old[1].file) # Dir(new[1].file)

\* C1: at most one spawned thread is running at any time.
C1_AtMostOneWorker == NumRunning(img_state, detached) <= 1

\* C2: the client has exactly one owner: App.client is None exactly when the
\* artwork state is Fetching, and then the thread behind the Fetching handle
\* is the one thread holding it; no thread holds it while App.client does.
C2_ClientOneOwner ==
    /\ is_none(client) <=> is_fetching(img_state)
    /\ is_some(client) => Holders = 0
    /\ is_none(client) => Holders = 1 /\ is_some(img_state.jh.client)

\* C2 witness: a tick took the client back from a finished fetch and handed
\* it to a new fetch, whose thread has finished and still holds it.
C2_Witness ==
    /\ is_some(tick.fetched)
    /\ is_none(client)
    /\ is_fetching(img_state)
    /\ is_finished(img_state.jh)

\* C3: Fetching is entered only from Idle, and Converting only from Idle.
C3_EnteredFromIdle ==
    /\ tick.fetch_from \in {"none", "Idle"}
    /\ tick.conv_from \in {"none", "Idle"}

\* C4: a tick that polls the current track calls start_fetching exactly when
\* the recorded and the polled track lie in different directories or exactly
\* one of them is absent.
C4_FetchIffDirChanged ==
    tick.polled =>
        (("start_fetching" \in tick.calls) <=> DirChanged(tick.old_song, current_song))

\* C4 witness: another track of the same directory is polled and no fetch
\* is started.
C4_Witness ==
    /\ tick.polled
    /\ is_some(tick.old_song)
    /\ is_some(current_song)
    /\ tick.old_song # current_song
    /\ Dir(tick.old_song[1].file) = Dir(current_song[1].file)
    /\ "start_fetching" \notin tick.calls

\* C5: when the tick that takes back a finished fetch polls a track of
\* another directory, the fetched bytes go to no conversion and a fetch of
\* the polled track is started.
C5_StaleBytesDiscarded ==
    (is_some(tick.fetched) /\ tick.polled /\ DirChanged(tick.old_song, current_song)) =>
        /\ "start_converting" \notin tick.calls
        /\ "start_fetching" \in tick.calls
        /\ is_fetching(img_state)
        /\ img_state.jh.kind = "fetch"
        /\ img_state.jh.song = current_song
        /\ is_none(tick.conv_area)

\* C5 witness: the finished fetch brought bytes of directory X and the
\* polled track lies in another directory.
C5_Witness ==
    /\ is_some(tick.fetched)
    /\ is_some(tick.fetched[1])
    /\ tick.polled
    /\ is_some(tick.old_song)
    /\ is_some(current_song)
    /\ Dir(tick.old_song[1].file) # Dir(current_song[1].file)
    /\ is_fetching(img_state)

\* A fetch is in flight, and its thread is still running or has ended.
FetchRunning == is_fetching(img_state) /\ img_state.jh.st = "running"
FetchEnded == is_fetching(img_state) /\ is_finished(img_state.jh)

\* The last tick took the client back from the fetch thread: it set the state
\* to Idle(None) and stored the client in App.client (from where the same
\* tick may have handed it to a new fetch, whose thread has not ended).
ClientTakenBack ==
    /\ ~FetchEnded
    /\ is_some(tick.fetched)
    /\ "set_idle" \in tick.calls
    /\ is_some(client) \/ "start_fetching" \in tick.calls

\* run has returned or is about to: no further update tick occurs.
Stopped == pc # "loop" \/ exit

\* C6: while update ticks keep occurring, every Fetching state is followed
\* by the end of the fetch thread, and that by a tick that takes the client
\* back and goes through Idle(None), whatever the fetch returned.
C6_FetchingYieldsClient ==
    /\ FetchRunning ~> (FetchEnded \/ Stopped)
    /\ FetchEnded ~> (ClientTakenBack \/ Stopped)

\* C6 witness: a tick took the client back from a fetch that returned no
\* bytes and the state is Idle(None) with the client in App.client.
C6_Witness ==
    /\ is_some(tick.fetched)
    /\ is_none(tick.fetched[1])
    /\ is_some(tick.old_song)
    /\ img_state = Idle(None)
    /\ is_some(client)

\* C7: two consecutive runs of update_app_state from handle_events are at
\* least UPDATE_PERIOD apart.
C7_TicksOnePeriodApart ==
    [][(HandleEventsUpdate /\ is_some(hist.last_run_at)) =>
            now - unwrap(hist.last_run_at) >= UPDATE_PERIOD]_vars

\* C8: the viewport given to start_converting is the terminal's size at
\* that moment.
C8_ConversionUsesCurrentViewport ==
    "start_converting" \in tick.calls => tick.conv_area = tick.conv_term

\* C9: a tick in which status() or currentsong() fails returns the error
\* without calling start_fetching, start_converting or
\* try_finish_converting, and run returns it: nothing runs afterwards.
C9_PollErrorAbortsTick ==
    /\ [](tick.poll_err # "none" =>
            /\ tick.result = "Err"
            /\ tick.calls \cap {"start_fetching", "start_converting",
                                "try_finish_converting"} = {}
            /\ pc = "err")
    /\ [][pc # "err"]_vars

\* C9 witness: currentsong() failed on the tick that had just taken the
\* client back from a fetch that brought bytes.
C9_Witness ==
    /\ tick.poll_err = "currentsong"
    /\ is_some(tick.fetched)
    /\ is_some(tick.fetched[1])
    /\ pc = "err"

\* C10: the tick that finds a conversion ended without a result leaves the
\* state Idle(None) and returns Ok; from the Idle(None) it left, a polled
\* track of another directory starts a fetch of that track.
C10_FailedConversionIdle ==
    /\ tick.conv_fin = "failed" =>
            /\ img_state = Idle(None)
            /\ tick.result = "Ok"
            /\ is_some(client)
    /\ (tick.after_fail /\ tick.polled /\ DirChanged(tick.old_song, current_song)) =>
            /\ "start_fetching" \in tick.calls
            /\ tick.fetch_from = "Idle"
            /\ is_fetching(img_state)
            /\ img_state.jh.song = current_song

\* C10 witness: after a failed conversion left Idle(None), a track of
\* another directory was polled and its fetch is in flight.
C10_Witness ==
    /\ tick.after_fail
    /\ tick.polled
    /\ is_some(tick.old_song)
    /\ is_some(current_song)
    /\ Dir(tick.old_song[1].file) # Dir(current_song[1].file)
    /\ is_fetching(img_state)

\* C11: when the fetch thread collected on a tick returned no bytes and the
\* track polled on that tick is in the directory of the track recorded before
\* it, the tick starts no conversion and no fetch, the artwork state at the
\* end of the tick is Idle(None), and render shows "No image" for it.
C11_NoBytesNoImage ==
    (/\ tick.polled
     /\ is_some(tick.fetched)
     /\ is_none(unwrap(tick.fetched))
     /\ ~DirChanged(tick.old_song, current_song))
        => /\ "start_converting" \notin tick.calls
           /\ "start_fetching" \notin tick.calls
           /\ img_state = Idle(None)
           /\ colored_text(img_state) = [art |-> None, message |-> "No image"]

\* A fetch for a track returned no bytes, and the tick that collected it
\* polled a track in the same directory.
C11_Witness ==
    /\ tick.polled
    /\ is_some(tick.fetched)
    /\ is_none(unwrap(tick.fetched))
    /\ is_some(current_song)
    /\ ~DirChanged(tick.old_song, current_song)
    /\ img_state = Idle(None)

\* C12: a tick that runs while the artwork state is Idle and the client is
\* held (so no fetched bytes are waiting), and that polls the very track
\* recorded before it, starts no fetch and no conversion and leaves the
\* artwork state, ready artwork included, as it was.
C12_SameTrackIdempotent ==
    [][(/\ RunStart \/ HandleEventsUpdate
        /\ img_state.tag = "Idle"
        /\ is_some(client)
        /\ tick'.polled
        /\ current_song' = current_song)
          => /\ img_state' = img_state
             /\ tick'.calls = {}
             /\ client' = client]_vars

\* A tick found ready artwork and the same track, and called nothing.
C12_Witness ==
    /\ tick.polled
    /\ is_some(current_song)
    /\ tick.old_song = current_song
    /\ tick.calls = {}
    /\ img_state.tag = "Idle"
    /\ is_some(img_state.ready)
    /\ is_some(hist.last_run_at)

\* C16: a tick calls start_converting only when its try_finish_fetching
\* returned bytes, after set_idle(None) and with the client back in
\* App.client; the state it leaves is then Idle, no fetch is started on that
\* tick, and the tick ends Converting.
C16_ConvertOnlyAfterFetch ==
    "start_converting" \in tick.calls
        => /\ {"try_finish_fetching", "join", "set_idle"} \subseteq tick.calls
           /\ is_some(tick.fetched)
           /\ is_some(unwrap(tick.fetched))
           /\ tick.conv_from = "Idle"
           /\ "start_fetching" \notin tick.calls
           /\ is_some(client)
           /\ is_converting(img_state)

\* A conversion was started for the bytes of a fetch.
C16_Witness ==
    /\ "start_converting" \in tick.calls
    /\ is_some(unwrap(tick.fetched))
    /\ is_converting(img_state)
    /\ img_state.jh.st = "running"

\* Ready artwork is held.
ArtReady == img_state.tag = "Idle" /\ is_some(img_state.ready)

FetchDone == is_fetching(img_state) /\ is_finished(img_state.jh)
ConvertDone == is_converting(img_state) /\ is_finished(img_state.jh)

\* C18: in every reachable state, try_finish_fetching and
\* try_finish_converting return None, join nothing and leave the artwork
\* state as it is unless the state is the matching in-flight variant and its
\* worker has finished; when they join, the worker had finished and the state
\* they leave is no longer that variant.
C18_TryFinishNeverBlocks ==
    LET f == try_finish_fetching(AppState)
        c == try_finish_converting(AppState)
    IN  /\ ~FetchDone => /\ is_none(f.ret)
                          /\ "join" \notin f.s.tick.calls
                          /\ f.s.img_state = img_state
        /\ FetchDone => /\ "join" \in f.s.tick.calls
                         /\ ~is_fetching(f.s.img_state)
        /\ ~ConvertDone => /\ is_none(c.ret)
                            /\ "join" \notin c.s.tick.calls
                            /\ c.s.img_state = img_state
        /\ ConvertDone => /\ "join" \in c.s.tick.calls
                           /\ ~is_converting(c.s.img_state)

\* A tick asked for a conversion still running: nothing was joined and the
\* state is still Converting.
C18_Witness ==
    /\ "try_finish_converting" \in tick.calls
    /\ "join" \notin tick.calls
    /\ tick.conv_fin = "pending"
    /\ is_converting(img_state)
    /\ img_state.jh.st = "running"

\* No step of update_app_state: nothing it writes changes.
NoTickStep ==
    /\ ~HandleEventsUpdate
    /\ UNCHANGED <<client, current_song, tick>>
    /\ img_state'.tag = img_state.tag

\* C20: once the key q has been read, no update tick runs and run returns
\* Ok, whatever the artwork state; and run returns Ok only after q was read.
C20_QuitReturnsOk ==
    /\ [](pc = "ok" => hist.q_read)
    /\ [][hist.q_read => (NoTickStep /\ pc' \in {"loop", "ok"})]_vars

\* C20, amended: once the key q has been read, no update tick runs and run
\* returns, Ok or with the error of the draw that follows the key press;
\* and run returns Ok only after q was read.
C20_QuitEndsRun ==
    /\ [](pc = "ok" => hist.q_read)
    /\ [](hist.q_read => exit)
    /\ [][hist.q_read => (NoTickStep /\ pc' \in {"loop", "ok", "err"})]_vars
    /\ [][(hist.q_read /\ pc' = "err") => TerminalError]_vars

\* run returned Ok after q was read while a fetch held the client.
C20_Witness ==
    /\ pc = "ok"
    /\ hist.q_read
    /\ is_fetching(img_state)
    /\ is_none(client)

\* C15: whenever main has returned after raw mode was enabled, raw mode is
\* disabled and the alternate screen has been left, and the error of run is
\* what main returns only with the terminal restored.
C15_TerminalRestoredOnReturn ==
    (pc = "returned" /\ terminal.enabled)
        => /\ ~terminal.raw
           /\ ~terminal.alt

\* The conversion thread has computed a width.
Converted == lay.stage \in {"converted", "rendered"}

C14_ViewableClamped ==
    /\ Converted
        => LET c == unwrap(lay.conv)
           IN  /\ ~c.underflow
               /\ c.viewable_width >= 1
               /\ c.viewable_height >= 1
    /\ (lay.stage = "rendered" /\ ~unwrap(lay.panel).image)
        => LET p == unwrap(lay.panel)
           IN  /\ ~p.margins_underflow
               /\ ~p.padding_underflow
               /\ p.viewable_width >= 1
               /\ p.viewable_height >= 1

\* C19: for every artwork state and every viewport given to render, the
\* panel of create_paragraph is no wider and no taller than the viewport, and
\* the subtraction for its centred origin does not underflow.
C19_PanelWithinViewport ==
    lay.stage = "rendered"
        => LET p == unwrap(lay.panel)
           IN  /\ p.width <= lay.viewport.width
               /\ p.height <= lay.viewport.height
               /\ ~p.origin_underflow

\* The last tick polled a track in another directory than the one recorded
\* before it.
TickChangedDir == tick.polled /\ DirChanged(tick.old_song, current_song)

\* What Idle can hold: nothing, or the artwork of a directory laid out for a
\* viewport.
IdleContents ==
    {None} \cup {Some([dir |-> Dir(f), area |-> r]) : f \in Files, r \in Rects}

\* run has returned, with Ok, an error or a panic, or has read the key q and
\* is about to return: update ticks have come to an end.
TicksEnded == pc \in {"ok", "err", "panic"} \/ exit

\* C21: while update ticks keep occurring, spawned threads end and no call
\* of the protocol or of the terminal fails, if from some point on no tick
\* polls a track of another directory, then from some point on the artwork
\* state is Idle and keeps the same content for ever: no fetch and no
\* conversion is started any more.
C21_Quiescence ==
    (<>[]~TickChangedDir)
        => \/ <>TicksEnded
           \/ \E c \in IdleContents : <>[](img_state = Idle(c))

\* Artwork is ready, the loop is running and the last tick, with no change
\* of directory and no thread left, had nothing to do.
C21_Witness ==
    /\ ArtReady
    /\ pc = "loop"
    /\ ~exit
    /\ tick.polled
    /\ ~TickChangedDir
    /\ tick.calls = {}
    /\ detached = [fetch |-> 0, convert |-> 0]
====
